---- MODULE Spec2Model ----
(***************************************************************************)
(* Reminder scheduling and notification dispatch of src/app.py             *)
(* (class MedicalVaccineSystem and main).                                  *)
(*                                                                         *)
(* Time is counted in whole seconds since 00:00:00 of day 0.  A datetime   *)
(* object is such a number; the TEXT column due_datetime and the poller's  *)
(* current_time are the strftime("%Y-%m-%d %H:%M:%S") strings, modelled as *)
(* the tuple <<day, hour, minute, second>> of their zero-padded fields, so *)
(* that SQL's text comparison is the lexicographic order of the tuples.    *)
(***************************************************************************)
EXTENDS Integers, Sequences, FiniteSets, Bags, TLC

\* ------------------------------------------------------------------ bounds
MaxSystems == 2
MaxRows == 2
MaxThreads == 2

\* --------------------------------------------------------- program constants
PollInterval == 60
HoldSeconds == 5

\* ------------------------------------------------------- inputs of the model
Names == {"", "Aspirin"}
FormDates == {0}
FormHours == {12}
FormMinutes == {1}
FormPeriods == {"AM", "PM"}
\* the instants (seconds of day 0) at which the model's clock is observed:
\* 00:00:55, 00:01:00, 00:01:05 and 12:01:00
Instants == {55, 60, 65, 43260}

VARIABLES
    now,            \* the wall clock, datetime.now()
    rows,           \* table reminders of medicine_reminders.db
    nextId,         \* the AUTOINCREMENT sequence of the table
    nsys,           \* number of MedicalVaccineSystem objects constructed
    sound_enabled,  \* self.sound_enabled of each system
    monitoring,     \* self.monitoring of each system
    pc,             \* position of each system's monitor_reminders thread
    queue,          \* due_reminders still to be walked by the for loop
    wakeAt,         \* earliest return of the thread's time.sleep(60)
    threads,        \* bag of running play_sound_and_notify threads
    music,          \* the one pygame.mixer.music player of the process
    msg,            \* feedback of the last reminder-form submit (st.*)
    ret             \* what notify_user returned to a loop still in its cycle

vars == <<now, rows, nextId, nsys, sound_enabled, monitoring, pc, queue,
          wakeAt, threads, music, msg, ret>>

Systems == 1..MaxSystems

\* ------------------------------------------------------------ pure helpers
\* datetime.strftime("%Y-%m-%d %H:%M:%S"): the fields of the text
Strftime(t) ==
    <<t \div 86400, (t % 86400) \div 3600, (t % 3600) \div 60, t % 60>>

\* the instant a stored text denotes (what the text parses back to)
ParseSeconds(s) == s[1] * 86400 + s[2] * 3600 + s[3] * 60 + s[4]

\* text comparison a < b of two timestamps of the same fixed-width format
TextLess(a, b) ==
    \E i \in 1..4 : a[i] < b[i] /\ \A j \in 1..(i - 1) : a[j] = b[j]

\* mutant: the comparison of the SELECT turned round, ">=" for "<="
TextGeq(a, b) == a = b \/ TextLess(b, a)

TextLeq(a, b) == a = b \/ TextLess(a, b)

\* hour_24 = (hour % 12) + (12 if period == "PM" else 0)
HourTo24(hour, period) == (hour % 12) + (IF period = "PM" THEN 12 ELSE 0)

\* datetime.combine(reminder_date, dt_time(hour_24, minute))
Combine(date, hour_24, minute) == date * 86400 + hour_24 * 3600 + minute * 60

\* the sequences that hold each element of S once
Perms(S) ==
    {q \in [1..Cardinality(S) -> S] : \A i, j \in DOMAIN q : q[i] = q[j] => i = j}

\* ------------------------------------------------------------ the store
RowIds(R) == {r.id : r \in R}

\* mutant: INTEGER PRIMARY KEY without AUTOINCREMENT, which hands out one more
\* than the largest id now in the table, so the id of a deleted row returns
NewIdReused ==
    IF rows = {} THEN 1
    ELSE 1 + CHOOSE i \in RowIds(rows) : \A j \in RowIds(rows) : j <= i

\* INTEGER PRIMARY KEY AUTOINCREMENT: one more than the largest id ever used
NewId == nextId

\* INSERT INTO reminders (medicine_name, due_datetime, notified) VALUES (?, ?, 0)
InsertRow(name, due) ==
    rows \cup {[id |-> NewId, medicine_name |-> name,
                due_datetime |-> Strftime(due), notified |-> 0]}

\* UPDATE reminders SET notified = 1 WHERE id = ?
MarkReminderAsNotified(R, reminder_id) ==
    {IF r.id = reminder_id THEN [r EXCEPT !.notified = 1] ELSE r : r \in R}

\* DELETE FROM reminders WHERE id = ?
DeleteRow(R, reminder_id) == {r \in R : r.id # reminder_id}

\* SELECT id, medicine_name, due_datetime FROM reminders
\*  WHERE notified = 0 AND datetime(due_datetime) <= datetime(?)
\* The statement has no ORDER BY: SQLite walks the table in rowid order.
DueUnnotified(current_time) ==
    LET hits == {[id |-> r.id, medicine_name |-> r.medicine_name,
                  due_datetime |-> r.due_datetime] :
                    r \in {x \in rows : x.notified = 0
                               /\ TextLeq(x.due_datetime, current_time)}}
    IN  CHOOSE q \in Perms(hits) :
            \A i, j \in DOMAIN q : i < j => q[i].id < q[j].id

\* SELECT ... FROM reminders ORDER BY due_datetime ASC (ties in rowid order)
ListedBefore(a, b) ==
    \/ TextLess(a.due_datetime, b.due_datetime)
    \/ a.due_datetime = b.due_datetime /\ a.id < b.id

\* mutant: the SELECT without its ORDER BY, rows in rowid order
ViewListingUnordered ==
    CHOOSE q \in Perms(rows) : \A i, j \in DOMAIN q : i < j => q[i].id < q[j].id

ViewListing ==
    CHOOSE q \in Perms(rows) :
        \A i, j \in DOMAIN q : i < j => ListedBefore(q[i], q[j])

\* ------------------------------------------------------------ construction
NoMusic == [playing |-> FALSE, since |-> 0]

NoReturn == [value |-> "none", rowcount |-> 0]

Init ==
    /\ now \in {t \in Instants : \A u \in Instants : t <= u}
    /\ rows = {}
    /\ nextId = 1
    /\ nsys = 1
    /\ \E s \in BOOLEAN :
           sound_enabled = [m \in Systems |-> IF m = 1 THEN s ELSE FALSE]
    /\ monitoring = [m \in Systems |-> m = 1]
    /\ pc = [m \in Systems |-> IF m = 1 THEN "loop" ELSE "none"]
    /\ queue = [m \in Systems |-> <<>>]
    /\ wakeAt = [m \in Systems |-> 0]
    /\ threads = EmptyBag
    /\ music = NoMusic
    /\ msg = "none"
    /\ ret = [m \in Systems |-> NoReturn]

\* main(): a page run constructs a MedicalVaccineSystem, whose __init__ sets
\* sound_enabled, monitoring = True and starts a monitor_reminders thread.
\* Pygame, the audio device and alarm.mp3 are those the first page run found,
\* so sound_enabled comes out as it did then.  The page is drawn afresh, so
\* the feedback of an earlier run is gone.
Main ==
    /\ nsys < MaxSystems
    /\ nsys' = nsys + 1
    /\ sound_enabled' = [sound_enabled EXCEPT ![nsys + 1] = sound_enabled[1]]
    /\ monitoring' = [monitoring EXCEPT ![nsys + 1] = TRUE]
    /\ pc' = [pc EXCEPT ![nsys + 1] = "loop"]
    /\ msg' = "none"
    /\ UNCHANGED <<now, rows, nextId, queue, wakeAt, threads, music,
                   ret>>

\* the clock advances; it never runs backwards
Tick ==
    /\ \E t \in Instants : t > now /\ now' = t
    /\ UNCHANGED <<rows, nextId, nsys, sound_enabled, monitoring, pc, queue,
                   wakeAt, threads, music, msg, ret>>

\* ------------------------------------------------------------ foreground
\* the two validations of the submit path: "if not medicine_name" and
\* "if reminder_datetime <= datetime.now()"
NameGiven(name) == name # ""

\* mutant: "<" for "<=", which lets a time equal to now pass
InFutureOrNow(due) == ~(due < now)

InFuture(due) == ~(due <= now)

\* set_vaccine_reminder, the submit path
SetVaccineReminder(name, date, hour, minute, period) ==
    LET due == Combine(date, HourTo24(hour, period), minute) IN
    /\ nextId <= MaxRows
    /\ \/ /\ ~NameGiven(name)
          /\ msg' = "error"
          /\ UNCHANGED <<rows, nextId>>
       \/ /\ NameGiven(name)
          /\ ~InFuture(due)
          /\ msg' = "error"
          /\ UNCHANGED <<rows, nextId>>
       \/ /\ NameGiven(name)
          /\ InFuture(due)
          /\ rows' = InsertRow(name, due)
          /\ nextId' = nextId + 1
          /\ msg' = "success"
       \/ /\ NameGiven(name)
          /\ InFuture(due)
          /\ msg' = "error"
          /\ UNCHANGED <<rows, nextId>>
    /\ UNCHANGED <<now, nsys, sound_enabled, monitoring, pc, queue, wakeAt,
                   threads, music, ret>>

\* view_reminders: the listing, and the Delete button of one listed row
\* (delete_reminder).  A sqlite3.Error of the DELETE is not caught: the page
\* run ends with the exception shown and the table unchanged.
ViewReminders ==
    /\ \/ UNCHANGED rows
       \/ \E i \in DOMAIN ViewListing :
            rows' = DeleteRow(rows, ViewListing[i].id)
       \/ /\ rows # {}
          /\ UNCHANGED rows
    /\ msg' = "none"
    /\ UNCHANGED <<now, nextId, nsys, sound_enabled, monitoring, pc, queue,
                   wakeAt, threads, music, ret>>

\* ------------------------------------------------------------ the poller
\* mutant: notify_user without its try/except, a failure reaching the caller
NotifyUserUncaught(threadOk, dbOk) ==
    [launched |-> threadOk,
     marked   |-> threadOk /\ dbOk,
     returned |-> "True",
     raised   |-> ~(threadOk /\ dbOk)]

\* mutant: "Mark as notified" placed before the thread is started
NotifyUserMarksFirst(threadOk, dbOk) ==
    [launched |-> threadOk /\ dbOk,
     marked   |-> dbOk,
     returned |-> IF threadOk /\ dbOk THEN "True" ELSE "False",
     raised   |-> FALSE]

\* what notify_user does with the outcome of Thread.start() and of
\* mark_reminder_as_notified: both run inside its try, and "except Exception"
\* turns a failure of either into the return value False
NotifyUserResult(threadOk, dbOk) ==
    [launched |-> threadOk,
     marked   |-> threadOk /\ dbOk,
     returned |-> IF threadOk /\ dbOk THEN "True" ELSE "False",
     raised   |-> FALSE]

\* the outcomes of Thread.start(): it raises RuntimeError when the process
\* cannot start another thread, and may do so at any time
CanStartThread ==
    IF BagCardinality(threads) < MaxThreads THEN BOOLEAN ELSE {FALSE}

\* mutant: monitor_reminders without its except clauses, the thread dying
CycleErrorUncaught == "dead"

\* where monitor_reminders goes when its try block raised: both except
\* clauses report the error and fall through to time.sleep(60)
CycleErrorPc == "sleep"

\* time.sleep(60) at the end of the loop body
Sleep(m, at) ==
    /\ pc' = [pc EXCEPT ![m] = at]
    /\ queue' = [queue EXCEPT ![m] = <<>>]
    /\ wakeAt' = [wakeAt EXCEPT ![m] = now + PollInterval]

\* monitor_reminders: once time.sleep(60) has returned, which is no earlier
\* than 60 seconds after its call, the while test and the SELECT of one cycle
MonitorFetch(m) ==
    /\ pc[m] = "loop" \/ (pc[m] = "sleep" /\ now >= wakeAt[m])
    /\ IF ~monitoring[m]
       THEN /\ pc' = [pc EXCEPT ![m] = "stopped"]
            /\ UNCHANGED <<queue, wakeAt>>
       ELSE \/ LET due_reminders == DueUnnotified(Strftime(now)) IN
                 IF due_reminders = <<>>
                 THEN Sleep(m, "sleep")
                 ELSE /\ pc' = [pc EXCEPT ![m] = "dispatch"]
                      /\ queue' = [queue EXCEPT ![m] = due_reminders]
                      /\ UNCHANGED wakeAt
            \/ Sleep(m, CycleErrorPc)
    /\ ret' = [ret EXCEPT ![m] = NoReturn]
    /\ UNCHANGED <<now, rows, nextId, nsys, sound_enabled, monitoring,
                   threads, music, msg>>

\* threading.Thread(target=play_sound_and_notify) of system m, started
NewThread(m, reminder_id) ==
    [rid |-> reminder_id, snd |-> sound_enabled[m], pc |-> "start", stopAt |-> 0]

\* monitor_reminders: one pass of "for reminder in due_reminders", that is
\* one call of notify_user
MonitorNotify(m) ==
    /\ pc[m] = "dispatch"
    /\ LET reminder == Head(queue[m]) IN
       \E threadOk \in CanStartThread, dbOk \in BOOLEAN :
         LET res == NotifyUserResult(threadOk, dbOk) IN
         /\ threads' = IF res.launched
                        THEN threads (+) SetToBag({NewThread(m, reminder.id)})
                        ELSE threads
         /\ rows' = IF res.marked
                    THEN MarkReminderAsNotified(rows, reminder.id)
                    ELSE rows
         /\ IF res.raised
            THEN /\ Sleep(m, CycleErrorPc)
                 /\ ret' = [ret EXCEPT ![m] = NoReturn]
            ELSE IF Len(queue[m]) > 1
                 THEN /\ queue' = [queue EXCEPT ![m] = Tail(@)]
                      /\ ret' = [ret EXCEPT ![m] =
                              [value |-> res.returned,
                               rowcount |-> IF res.marked
                                            THEN Cardinality({r \in rows :
                                                     r.id = reminder.id})
                                            ELSE 0]]
                      /\ UNCHANGED <<pc, wakeAt>>
                 ELSE /\ Sleep(m, "sleep")
                      /\ ret' = [ret EXCEPT ![m] = NoReturn]
    /\ UNCHANGED <<now, nextId, nsys, sound_enabled, monitoring, music,
                   msg>>

\* ------------------------------------------------------ notification thread
\* play_sound_and_notify up to its time.sleep(5): pygame.mixer.music.play()
\* (a pygame.error is passed over), notification.notify (an exception is
\* reported), then the hold when sound is enabled
ThreadRun(t) ==
    /\ t.pc = "start"
    /\ \E fileExists, playOk \in BOOLEAN :
         music' = IF t.snd /\ fileExists /\ playOk
                  THEN [playing |-> TRUE, since |-> now]
                  ELSE music
    /\ threads' = IF t.snd
                  THEN (threads (-) SetToBag({t}))
                       (+) SetToBag({[t EXCEPT !.pc = "hold",
                                               !.stopAt = now + HoldSeconds]})
                  ELSE threads (-) SetToBag({t})
    /\ UNCHANGED <<now, rows, nextId, nsys, sound_enabled, monitoring, pc,
                   queue, wakeAt, msg, ret>>

\* play_sound_and_notify after its time.sleep(5): pygame.mixer.music.stop()
\* (a pygame.error is passed over) and the thread ends
ThreadStop(t) ==
    /\ t.pc = "hold"
    /\ now >= t.stopAt
    /\ \E stopOk \in BOOLEAN : music' = IF stopOk THEN NoMusic ELSE music
    /\ threads' = threads (-) SetToBag({t})
    /\ UNCHANGED <<now, rows, nextId, nsys, sound_enabled, monitoring, pc,
                   queue, wakeAt, msg, ret>>

\* ------------------------------------------------------------ specification
Next ==
    \/ Main
    \/ Tick
    \/ \E name \in Names, date \in FormDates, hour \in FormHours,
          minute \in FormMinutes, period \in FormPeriods :
            SetVaccineReminder(name, date, hour, minute, period)
    \/ ViewReminders
    \/ \E m \in Systems : MonitorFetch(m)
    \/ \E m \in Systems : MonitorNotify(m)
    \/ \E t \in BagToSet(threads) : ThreadRun(t)
    \/ \E t \in BagToSet(threads) : ThreadStop(t)

Spec == Init /\ [][Next]_vars

\* ------------------------------------------- the runs without failing calls
\* the last instant at which the model observes the clock
LastInstant == CHOOSE t \in Instants : \A u \in Instants : u <= t

\* time goes on after the last observed instant: every time.sleep(60) and
\* time.sleep(5) still pending returns.  No reminder is due later than that
\* instant, so the clock reading is left where it is.
Elapse ==
    /\ now = LastInstant
    /\ wakeAt' = [m \in Systems |-> IF wakeAt[m] > now THEN now ELSE wakeAt[m]]
    /\ threads' = BagOfAll(LAMBDA t : [t EXCEPT !.stopAt =
                                         IF @ > now THEN now ELSE @], threads)
    /\ wakeAt' # wakeAt \/ threads' # threads
    /\ UNCHANGED <<now, rows, nextId, nsys, sound_enabled, monitoring, pc,
                   queue, music, msg, ret>>

\* a cycle of monitor_reminders whose SELECT raises nothing
MonitorFetchOk(m) ==
    /\ MonitorFetch(m)
    /\ DueUnnotified(Strftime(now)) # <<>> => pc'[m] = "dispatch"

\* a notify_user call in which Thread.start() and the UPDATE raise nothing
MonitorNotifyOk(m) ==
    /\ MonitorNotify(m)
    /\ threads' = threads (+) SetToBag({NewThread(m, Head(queue[m]).id)})
    /\ rows' = MarkReminderAsNotified(rows, Head(queue[m]).id)

\* a step of some notification thread
ThreadStep == \E t \in BagToSet(threads) : ThreadRun(t) \/ ThreadStop(t)

LiveNext ==
    \/ Main
    \/ Tick
    \/ Elapse
    \/ \E name \in Names, date \in FormDates, hour \in FormHours,
          minute \in FormMinutes, period \in FormPeriods :
            SetVaccineReminder(name, date, hour, minute, period)
    \/ ViewReminders
    \/ \E m \in Systems : MonitorFetchOk(m)
    \/ \E m \in Systems : MonitorNotifyOk(m)
    \/ ThreadStep

\* The monitor loops and the notification threads are threads of a live
\* process and are scheduled again and again; time passes.  The user owes
\* the program no page run, submit or click.
LiveSpec ==
    /\ Init
    /\ [][LiveNext]_vars
    /\ WF_vars(Tick)
    /\ WF_vars(Elapse)
    /\ \A m \in Systems : WF_vars(MonitorFetchOk(m)) /\ WF_vars(MonitorNotifyOk(m))
    /\ WF_vars(ThreadStep)

\* ------------------------------------------------------------ properties
\* a notification thread of this reminder has been started and has not yet
\* run its audio and desktop-alert actions
DispatchPending(reminder_id) ==
    \E t \in BagToSet(threads) : t.rid = reminder_id /\ t.pc = "start"

\* C1: every reminder is dispatched at most once: no poll cycle of any
\* monitor loop calls notify_user for a reminder that is already notified.
C1_AtMostOnce ==
    [][\A m \in Systems :
          MonitorNotify(m) =>
              \A r \in rows : r.id = Head(queue[m]).id => r.notified = 0]_vars

\* the request of a submit is valid: a name, and a time strictly after now
ValidRequest(name, date, hour, minute, period) ==
    name # "" /\ Combine(date, HourTo24(hour, period), minute) > now

\* the step added exactly one row, unnotified, holding the request
RowAdded(name, date, hour, minute, period) ==
    \E r \in rows' :
       /\ r.id \notin RowIds(rows)
       /\ rows' = rows \cup {r}
       /\ r.medicine_name = name
       /\ ParseSeconds(r.due_datetime) =
              Combine(date, HourTo24(hour, period), minute)
       /\ r.notified = 0

\* C2 as stated: a submit adds exactly one unnotified row if the name is
\* non-empty and the time strictly after now, and otherwise leaves the table
\* unchanged.
C2_Original ==
    [][\A name \in Names, date \in FormDates, hour \in FormHours,
          minute \in FormMinutes, period \in FormPeriods :
          SetVaccineReminder(name, date, hour, minute, period) =>
              IF ValidRequest(name, date, hour, minute, period)
              THEN RowAdded(name, date, hour, minute, period)
              ELSE rows' = rows]_vars

\* C2 amended: a submit with an empty name or a time <= now is rejected with
\* the table unchanged; a valid submit adds exactly one unnotified row, unless
\* the INSERT raises sqlite3.Error, which is reported with the table unchanged.
C2_CreateIffValid ==
    [][\A name \in Names, date \in FormDates, hour \in FormHours,
          minute \in FormMinutes, period \in FormPeriods :
          SetVaccineReminder(name, date, hour, minute, period) =>
              IF ValidRequest(name, date, hour, minute, period)
              THEN \/ RowAdded(name, date, hour, minute, period)
                      /\ msg' = "success"
                   \/ rows' = rows /\ msg' = "error"
              ELSE rows' = rows /\ msg' = "error"]_vars

\* C2 witness: a request made at 00:01:00 was accepted and its row is stored
C2_Witness ==
    /\ msg = "success"
    /\ now = 60
    /\ \E r \in rows : r.notified = 0 /\ ParseSeconds(r.due_datetime) > now

\* C3: within one poll cycle the due reminders are dispatched in ascending
\* due-time order: what a loop has still to dispatch is sorted by due time.
C3_DispatchAscending ==
    \A m \in Systems :
       \A i, j \in DOMAIN queue[m] :
          i < j => ParseSeconds(queue[m][i].due_datetime)
                     <= ParseSeconds(queue[m][j].due_datetime)

\* the row a loop fetched is no longer in the table
Gone(reminder) ==
    ~ \E r \in rows : /\ r.id = reminder.id
                      /\ r.medicine_name = reminder.medicine_name
                      /\ r.due_datetime = reminder.due_datetime

\* the loop of system m went on after a notify_user call: to the next
\* reminder of the cycle, or to the sleep before the next cycle
LoopGoesOn(m) ==
    IF Len(queue[m]) > 1
    THEN /\ pc'[m] = "dispatch"
         /\ queue'[m] = Tail(queue[m])
         /\ ret'[m].value \in {"True", "False"}
    ELSE /\ pc'[m] = "sleep"
         /\ wakeAt'[m] = now + PollInterval

\* C4: notify_user for a reminder whose row was deleted after the fetch
\* changes no row (the row stays absent, no other flag changes) and raises
\* nothing into the loop, which goes on.
C4_MarkAfterDelete ==
    [][\A m \in Systems :
          (MonitorNotify(m) /\ Gone(Head(queue[m]))) =>
              rows' = rows /\ LoopGoesOn(m)]_vars

\* C4 witness: the UPDATE of a deleted reminder ran, matched no row, and
\* notify_user returned True to a loop that goes on with its cycle
C4_Witness ==
    \E m \in Systems :
       pc[m] = "dispatch" /\ ret[m].value = "True" /\ ret[m].rowcount = 0

\* C5: the listing of view_reminders holds every stored reminder once, in
\* non-decreasing due time; an empty table gives an empty listing.
C5_ListingSorted ==
    /\ Len(ViewListing) = Cardinality(rows)
    /\ {ViewListing[i] : i \in DOMAIN ViewListing} = rows
    /\ \A i, j \in DOMAIN ViewListing :
          i < j => ParseSeconds(ViewListing[i].due_datetime)
                     <= ParseSeconds(ViewListing[j].due_datetime)

\* C5 witness: two stored reminders, the later due one inserted first
C5_Witness ==
    \E a, b \in rows :
       a.id < b.id /\ ParseSeconds(a.due_datetime) > ParseSeconds(b.due_datetime)

\* C6: notify_user never raises to its caller: whatever Thread.start(), the
\* store and the two channels do, the loop goes on with the next reminder,
\* and a step of a notification thread changes nothing of any loop.
C6_NotifyNeverRaises ==
    [][/\ \A m \in Systems : MonitorNotify(m) => LoopGoesOn(m)
       /\ \A t \in BagToSet(threads) :
             (ThreadRun(t) \/ ThreadStop(t)) =>
                 UNCHANGED <<pc, queue, wakeAt, ret, rows>>]_vars

\* C6 witness: notify_user returned False and the loop is at the next reminder
C6_Witness ==
    \E m \in Systems : pc[m] = "dispatch" /\ ret[m].value = "False"

\* the ids of the reminders that are unnotified and due at this instant
DueIds == {r.id : r \in {x \in rows : x.notified = 0
                                      /\ ParseSeconds(x.due_datetime) <= now}}

\* C7: an error in a poll cycle does not end the loop: after every step of a
\* loop it is still Running, dispatching or in the 60 second sleep before its
\* next cycle; a dispatch that started no thread marks nothing; and a cycle
\* that fetches takes up every reminder that is due and unnotified.
C7_LoopSurvivesErrors ==
    [][\A m \in Systems :
          /\ (MonitorFetch(m) \/ MonitorNotify(m)) =>
                /\ monitoring'[m]
                /\ pc'[m] \in {"dispatch", "sleep"}
                /\ pc'[m] = "sleep" => wakeAt'[m] = now + PollInterval
          /\ (MonitorFetch(m) /\ pc[m] = "sleep") => now >= wakeAt[m]
          /\ (MonitorFetch(m) /\ pc'[m] = "dispatch") =>
                {queue'[m][i].id : i \in DOMAIN queue'[m]} = DueIds
          /\ (MonitorNotify(m) /\ threads' = threads) => rows' = rows]_vars

\* C7 witness: a loop in a later cycle is dispatching a reminder that was
\* already due when its previous cycle ran and is still unnotified
C7_Witness ==
    \E m \in Systems :
       /\ pc[m] = "dispatch"
       /\ wakeAt[m] > 0
       /\ ParseSeconds(Head(queue[m]).due_datetime) <= wakeAt[m] - PollInterval
       /\ \E r \in rows : r.id = Head(queue[m]).id /\ r.notified = 0

\* C8: the poller supports a shutdown signal: for a running loop some step of
\* the system clears its monitoring flag, and a loop whose flag is cleared
\* fetches and dispatches no more.
C8_ShutdownSupported ==
    \A m \in 1..nsys :
       /\ monitoring[m] => ENABLED (Next /\ ~monitoring'[m])
       /\ ~monitoring[m] => pc[m] \in {"sleep", "stopped"}

C10_FullWindow ==
    [][(music.playing /\ ~music'.playing) =>
           now >= music.since + HoldSeconds]_vars

\* the monitor loops that are running: started, and neither stopped nor dead
RunningLoops == {m \in Systems : pc[m] \in {"loop", "dispatch", "sleep"}}

\* C11: at every moment exactly one monitor_reminders loop is running against
\* the store, whatever the user does and however often the page is run again.
C11_SinglePoller == Cardinality(RunningLoops) = 1

\* the reminder with this id is stored and not yet notified
Waiting(reminder_id) == \E r \in rows : r.id = reminder_id /\ r.notified = 0

\* C12 as stated, its time bound: with no failing call, a cycle that follows
\* a sleep of its loop and takes up a reminder runs no later than one poll
\* interval (60 seconds) after the reminder became due.
C12_Original ==
    [][\A m \in Systems :
          (MonitorFetchOk(m) /\ pc[m] = "sleep") =>
              \A i \in DOMAIN queue'[m] :
                 now <= ParseSeconds(queue'[m][i].due_datetime) + PollInterval]_vars

\* C12 amended: with no failing call, a reminder that stays stored is in the
\* end dispatched and marked notified, in the first poll cycle whose timestamp
\* is >= its due time (a cycle takes up every reminder due and unnotified at
\* its timestamp, and its notify_user call marks the row), however late after
\* the due time the sleep before that cycle returns; and no reminder is
\* dispatched or marked in a cycle whose timestamp is before its due time.
C12_EventuallyDispatched ==
    /\ [][\A m \in Systems :
            /\ MonitorFetchOk(m) =>
                  {queue'[m][i].id : i \in DOMAIN queue'[m]} = DueIds
            /\ MonitorNotifyOk(m) =>
                  /\ ParseSeconds(Head(queue[m]).due_datetime) <= now
                  /\ \A r \in rows' :
                        r.id = Head(queue[m]).id => r.notified = 1]_vars
    /\ [](\A r \in rows : r.notified = 1 => ParseSeconds(r.due_datetime) <= now)
    /\ \A reminder_id \in 1..MaxRows :
          Waiting(reminder_id) ~> ~ Waiting(reminder_id)

\* C12 witness: a reminder due at 12:01 PM, created in the first minute of
\* the day, has been dispatched and marked, and the dispatching loop sleeps
C12_Witness ==
    /\ \E r \in rows : r.notified = 1 /\ ParseSeconds(r.due_datetime) = 43260
    /\ \E m \in Systems : pc[m] = "sleep" /\ wakeAt[m] >= LastInstant

====
